---- MODULE Spec2Model ----
(***************************************************************************)
(* A model of the gpui-grid benchmark harness (src/main.rs): the rolling   *)
(* frame-rate estimator (FpsCounter), the self-rescheduling frame callback *)
(* of FpsView, the frame_log.csv diagnostics sink (log_frame), the        *)
(* GridBench controller, its column layout and cell generation, and the    *)
(* overrides main reads from the environment.                              *)
(*                                                                         *)
(* Time is an integer number of clock quanta (Instant); a rate is the      *)
(* exact quotient of two integers, kept as a reduced fraction, with        *)
(* den = 0 standing for the IEEE-754 result +inf of dividing a positive    *)
(* f64 by 0.0.                                                             *)
(***************************************************************************)
EXTENDS Integers, Sequences, FiniteSets, TLC

\* ------------------------------------------------------------------ bounds
\* The largest value the monotonic clock takes.
MaxClock == 2
\* The largest number of record() calls made on one FpsCounter.
MaxRecords == 62
\* The largest number of frame callbacks run.
MaxFrames == 3
\* The largest number of render passes drawn.
MaxDraws == 2
\* The pieces a row of the log is written in.
RowParts == 2
\* usize::MAX of the modelled machine word (the width is scaled down).
UsizeMax == 8191
\* The threads that call log_frame at the same time, and their emissions.
NThreads == 2
MaxEmissions == 2
\* The largest number of control clicks handled.
MaxClicks == 2

\* ------------------------------------------------------- program constants
FRAME_HISTORY == 60
DEFAULT_ROWS == 50
DEFAULT_CELL_SIZE == 32
DEFAULT_STEP == 1
CELL_STEP == 4
MIN_CELL_SIZE == 8
MAX_CELL_SIZE == 128
MIN_ROWS == 1
DEFAULT_WIDTH == 800
DEFAULT_HEIGHT == 600
CELL_GAP == 4
GRID_PADDING == 16

VARIABLES
    clock,          \* the value Instant::now() returns
    render_fps,     \* FpsView.render_fps : FpsCounter
    frame_fps,      \* FpsView.frame_fps : FpsCounter
    render_samples, \* history: every instant render_fps.record() captured
    frame_samples,  \* history: every instant frame_fps.record() captured
    owner_alive,    \* the FpsView entity still has a strong handle
    pending,        \* frame callbacks of FpsView registered with on_next_frame
    raf,            \* an animation frame was requested by FpsView::render
    dirty,          \* cx.notify() was called since the last render pass
    frame_number,   \* diag.frame_number: render passes drawn so far
    init_once,      \* log_frame's static INIT: "new", "running" or "done"
    file,           \* frame_log.csv in the working directory
    init_io,        \* history: how each run of the one-time initialisation ended
    appended,       \* history: the row pieces whose write succeeded, in order
    last_io,        \* history: the I/O outcomes of the latest emission
    io_faults,      \* history: the opens and writes that failed so far
    emitted,        \* history: frame numbers handed to log_frame, in order
    pc,             \* per thread inside log_frame: the statement it is at
    tframe,         \* per thread: diag.frame_number of its emission
    tpart,          \* per thread: the next piece of its row to write
    row_count,      \* GridBench.row_count : usize
    cell_size,      \* GridBench.cell_size : f32
    step_size,      \* GridBench.step_size : usize
    enable_hover,   \* GridBench.enable_hover
    enable_click,   \* GridBench.enable_click
    round_trip,     \* history: an add_row and the remove_row right after it
    last_op,        \* history: the control whose listener ran last
    clicks,         \* history: the control clicks handled so far
    viewport,       \* window.viewport_size().width, in whole pixels
    col_count,      \* GridBench::render's col_count in the latest pass
    total_cells,    \* GridBench::render's total_cells in the latest pass
    cells,          \* the cells the latest pass generated, in order
    drawn,          \* history: the config the latest pass read
    env,            \* the process environment
    launched,       \* main has opened the window
    window_width,   \* main's window_width : f32
    window_height,  \* main's window_height : f32
    build,          \* [fiber, debug]: cfg(feature = "fiber"), cfg(debug_assertions)
    panicked        \* the process aborted on a panic

counterVars == <<clock, render_fps, frame_fps, render_samples, frame_samples>>
loopVars    == <<owner_alive, pending, raf, dirty, frame_number>>
logVars     == <<init_once, file, init_io, appended, last_io, io_faults, emitted>>
threadVars  == <<pc, tframe, tpart>>
gridVars    == <<viewport, col_count, total_cells, cells, drawn>>
mainVars    == <<env, launched, window_width, window_height>>
benchVars   == <<row_count, cell_size, step_size, enable_hover, enable_click, round_trip,
                 last_op, clicks, gridVars, mainVars>>
vars == <<counterVars, loopVars, logVars, threadVars, benchVars, build, panicked>>

\* ------------------------------------------------------------ arithmetic
RECURSIVE GCD(_, _)
GCD(a, b) == IF b = 0 THEN a ELSE GCD(b, a % b)

\* f64 division of a non-negative count by a non-negative duration.
\* x / 0.0 is +inf for x > 0 (den = 0) and NaN for x = 0 (num = den = 0).
F64Div(a, b) ==
    IF b = 0 THEN [num |-> IF a = 0 THEN 0 ELSE 1, den |-> 0]
    ELSE LET g == GCD(a, b) IN [num |-> a \div g, den |-> b \div g]

\* Instant::duration_since saturates to zero when `earlier` is later.
DurationSince(now, earlier) == IF now >= earlier THEN now - earlier ELSE 0

\* ------------------------------------------------------------ FpsCounter
FpsCounterNew == [times |-> <<>>, fps |-> [num |-> 0, den |-> 1]]

\* (variant: pop_back in place of pop_front)
EvictKeepOldest(times) ==
    IF Len(times) > FRAME_HISTORY THEN SubSeq(times, 1, Len(times) - 1) ELSE times

\* the pop_front of record(): the window never keeps more than FRAME_HISTORY
Evict(times) ==
    IF Len(times) > FRAME_HISTORY THEN Tail(times) ELSE times

\* (variant: len in place of len - 1)
RateOfLen(times, now) == F64Div(Len(times), DurationSince(now, Head(times)))

\* (times.len() - 1) as f64 / now.duration_since(*oldest).as_secs_f64()
Rate(times, now) == F64Div(Len(times) - 1, DurationSince(now, Head(times)))

Record(c, now) ==
    LET kept == Evict(Append(c.times, now))
    IN  [times |-> kept,
         fps   |-> IF Len(kept) >= 2 THEN Rate(kept, now) ELSE c.fps]

\* -------------------------------------------------------- frame_log.csv
\* The file is a sequence of written pieces: the header line, and for the row
\* of frame n the pieces 1..RowParts that writeln! hands to File::write one by
\* one (a File is unbuffered, so every piece is a write of its own).
Header == [kind |-> "header", frame |-> 0, part |-> 0]
Stale == [kind |-> "stale", frame |-> 0, part |-> 0]
RowPart(n, p) == [kind |-> "row", frame |-> n, part |-> p]
NoFile == [exists |-> FALSE, data |-> <<>>]
StaleFile == [exists |-> TRUE, data |-> <<Stale>>]

\* OpenOptions::new().create(true).write(true).truncate(true).open(..)
OpenTruncate(f, ok) == IF ok THEN [exists |-> TRUE, data |-> <<>>] ELSE f

\* (variant: append(true) with create(true))
OpenAppendCreates(f, ok) == ok

\* OpenOptions::new().append(true).open(..): no create, so a missing file fails
OpenAppend(f, ok) == ok /\ f.exists

\* one write of an open handle; a failed write leaves the file as it was
WritePiece(f, piece, ok) == IF ok THEN [f EXCEPT !.data = Append(@, piece)] ELSE f

\* writeln!(f, "{},...,{}", ..): the pieces 1..n reach the file, n < RowParts
\* when the write of piece n + 1 failed
RECURSIVE WriteRow(_, _, _)
WriteRow(f, frame, n) ==
    IF n = 0 THEN f
    ELSE WritePiece(WriteRow(f, frame, n - 1), RowPart(frame, n), TRUE)

\* The closure of INIT.call_once: o.trunc, o.hdr are the outcomes of the open
\* and of the header's write.
InitHeader(f, o) ==
    IF o.trunc THEN WritePiece(OpenTruncate(f, TRUE), Header, o.hdr) ELSE f

InitResult(o) ==
    IF ~o.trunc THEN "open_failed" ELSE IF ~o.hdr THEN "write_failed" ELSE "ok"

\* (variant: no Once, the closure runs in every call)
OnceAlways(once) == TRUE

\* INIT.call_once runs its closure only while INIT is new
OnceRuns(once) == once = "new"

\* The append half of log_frame: o.app is the outcome of the open, o.parts
\* the number of pieces written before a write failed.
AppendRow(f, frame, o) ==
    IF OpenAppend(f, o.app) THEN WriteRow(f, frame, o.parts) ELSE f

\* log_frame(diag), run without interruption: the file it leaves.
LogFrame(once, f, frame, o) ==
    AppendRow(IF OnceRuns(once) THEN InitHeader(f, o) ELSE f, frame, o)

\* The pieces of its row that log_frame gets written.
RowWritten(once, f, frame, o) ==
    IF OpenAppend(IF OnceRuns(once) THEN InitHeader(f, o) ELSE f, o.app)
    THEN [i \in 1..o.parts |-> RowPart(frame, i)] ELSE <<>>

\* The I/O outcomes one emission can meet. Outcomes of calls the emission
\* does not make are fixed to TRUE, so that each behaviour is listed once.
Outcomes(once, f) ==
    { o \in [trunc : BOOLEAN, hdr : BOOLEAN, app : BOOLEAN, parts : 0..RowParts] :
        /\ (~OnceRuns(once) => o.trunc /\ o.hdr)
        /\ (~o.trunc => o.hdr)
        /\ (~o.app => o.parts = RowParts)
        /\ (~(IF OnceRuns(once) THEN InitHeader(f, o) ELSE f).exists => ~o.app) }

\* the calls of an emission that failed
Faults(o) ==
    (IF o.trunc THEN 0 ELSE 1) + (IF o.hdr THEN 0 ELSE 1) + (IF o.app THEN 0 ELSE 1)
    + (IF o.parts = RowParts THEN 0 ELSE 1)

NoIo == [trunc |-> TRUE, hdr |-> TRUE, app |-> TRUE, parts |-> RowParts]

\* ------------------------------------------------------------ environment
\* An environment variable is unset or holds a string, here the sequence of
\* its characters.
Unset == [set |-> FALSE, val |-> <<>>]
Val(str) == [set |-> TRUE, val |-> str]

Digits == <<"0", "1", "2", "3", "4", "5", "6", "7", "8", "9">>
IsDigit(c) == \E d \in 1..10 : Digits[d] = c
DigitVal(c) == (CHOOSE d \in 1..10 : Digits[d] = c) - 1
AllDigits(str) == \A i \in 1..Len(str) : IsDigit(str[i])

RECURSIVE Decimal(_)
Decimal(str) ==
    IF str = <<>> THEN 0
    ELSE 10 * Decimal(SubSeq(str, 1, Len(str) - 1)) + DigitVal(str[Len(str)])

None == [ok |-> FALSE, v |-> 0]
Some(x) == [ok |-> TRUE, v |-> x]

\* str::parse::<usize>: an optional "+", then one or more digits, and a value
\* that fits the word; anything else is an error.
ParseUsize(str) ==
    LET body == IF str # <<>> /\ str[1] = "+" THEN Tail(str) ELSE str
    IN  IF body = <<>> \/ ~AllDigits(body) THEN None
        ELSE IF Decimal(body) > UsizeMax THEN None
        ELSE Some(Decimal(body))

\* f32 values: a finite number of whole pixels, NaN, or an infinity (v its sign)
Fin(x) == [k |-> "fin", v |-> x]
NaN == [k |-> "nan", v |-> 0]
Inf(sign) == [k |-> "inf", v |-> sign]

Lower(c) ==
    CASE c = "N" -> "n" [] c = "A" -> "a" [] c = "I" -> "i" [] c = "F" -> "f"
      [] c = "T" -> "t" [] c = "R" -> "r" [] c = "U" -> "u" [] c = "E" -> "e"
      [] OTHER -> c
LowerStr(str) == [i \in 1..Len(str) |-> Lower(str[i])]

\* str::parse::<f32>: an optional sign, then "nan", "inf", "infinity" in any
\* case, or a decimal number. The decimal numbers of the model are whole.
ParseF32(str) ==
    LET signed == str # <<>> /\ str[1] \in {"+", "-"}
        sign == IF str # <<>> /\ str[1] = "-" THEN -1 ELSE 1
        body == IF signed THEN Tail(str) ELSE str
    IN  IF LowerStr(body) = <<"n", "a", "n">> THEN Some(NaN)
        ELSE IF LowerStr(body) \in {<<"i", "n", "f">>,
                                    <<"i", "n", "f", "i", "n", "i", "t", "y">>}
             THEN Some(Inf(sign))
        ELSE IF body = <<>> \/ ~AllDigits(body) THEN None
        ELSE Some(Fin(sign * Decimal(body)))

\* env_usize / env_f32: the parsed value, the default when the variable is
\* unset or does not parse
env_usize(e, default) ==
    IF e.set /\ ParseUsize(e.val).ok THEN ParseUsize(e.val).v ELSE default

env_f32(e, default) ==
    IF e.set /\ ParseF32(e.val).ok THEN ParseF32(e.val).v ELSE default

\* env_bool: a set variable is true exactly when it is "1" or "true" in any
\* case; the default is used only when it is unset
env_bool(e, default) ==
    IF e.set THEN e.val = <<"1">> \/ LowerStr(e.val) = <<"t", "r", "u", "e">>
    ELSE default

\* The values the environment gives the overrides.
RowsEnv == {Unset, Val(<<"0">>), Val(<<"1">>), Val(<<"8", "1", "9", "0">>),
            Val(<<"8", "1", "9", "2">>),
            Val(<<"-", "1">>)}
CellEnv == {Unset, Val(<<"4">>), Val(<<"8">>), Val(<<"1", "2", "6">>),
            Val(<<"2", "0", "0">>), Val(<<"-", "8">>), Val(<<"n", "a", "n">>),
            Val(<<"i", "n", "f">>), Val(<<"p", "x">>)}
StepEnv == {Unset, Val(<<"0">>), Val(<<"3">>), Val(<<"8", "1", "9", "1">>), Val(<<>>)}
BoolEnv == {Unset, Val(<<"1">>), Val(<<"T", "r", "u", "e">>), Val(<<"0">>),
            Val(<<"y", "e", "s">>)}
WidthEnv == {Unset, Val(<<"1", "0", "0">>), Val(<<"w", "i", "d", "e">>)}
HeightEnv == {Unset, Val(<<"4", "0", "0">>), Val(<<"6", "0", "0", "p", "x">>)}
Envs == [rows : RowsEnv, cell : CellEnv, hover : BoolEnv, click : BoolEnv,
         step : StepEnv, width : WidthEnv, height : HeightEnv]
NoEnv == [rows |-> Unset, cell |-> Unset, hover |-> Unset, click |-> Unset,
          step |-> Unset, width |-> Unset, height |-> Unset]

\* The environments the controller is run under.
BenchEnvs ==
    [rows : RowsEnv, cell : CellEnv, hover : {Unset, Val(<<"0">>)},
     click : {Unset, Val(<<"0">>)}, step : StepEnv, width : {Unset},
     height : {Unset}]

\* The environments the grid is laid out under, which give small grids.
GridEnvs ==
    [rows : {Val(<<"0">>), Val(<<"4">>)},
     cell : {Unset, Val(<<"-", "4">>), Val(<<"-", "8">>)},
     hover : {Unset}, click : {Unset}, step : {Unset},
     width : {Val(<<"2", "2", "0">>), Val(<<"-", "1">>)},
     height : {Unset}]

\* The viewport widths the host gives the window.
Widths == {0, 220}

\* The viewport of a window opened with Bounds::centered(None, size(px(w), ..)):
\* the requested width when it is one a window can have, else the host's choice
HostWidths(w) == IF w.k = "fin" /\ w.v >= 0 THEN {w.v} ELSE Widths

\* ------------------------------------------------------------- GridBench
\* f32 + a finite number, and f32::min / f32::max against a finite bound (a
\* NaN operand is ignored by both)
F32Add(a, n) == IF a.k = "fin" THEN Fin(a.v + n) ELSE a

F32Min(a, bound) ==
    CASE a.k = "nan" -> Fin(bound)
      [] a.k = "inf" -> IF a.v > 0 THEN Fin(bound) ELSE a
      [] OTHER -> IF a.v < bound THEN a ELSE Fin(bound)

F32Max(a, bound) ==
    CASE a.k = "nan" -> Fin(bound)
      [] a.k = "inf" -> IF a.v < 0 THEN Fin(bound) ELSE a
      [] OTHER -> IF a.v > bound THEN a ELSE Fin(bound)

\* GridBench::new
GridBenchNew(e) ==
    [row_count    |-> env_usize(e.rows, DEFAULT_ROWS),
     cell_size    |-> env_f32(e.cell, Fin(DEFAULT_CELL_SIZE)),
     enable_hover |-> env_bool(e.hover, TRUE),
     enable_click |-> env_bool(e.click, TRUE),
     step_size    |-> env_usize(e.step, DEFAULT_STEP)]

\* usize + usize: an overflow panics where overflow checks are compiled in
\* and wraps around where they are not
AddOverflows(a, b) == a + b > UsizeMax
WrappingAdd(a, b) == (a + b) % (UsizeMax + 1)
SaturatingSub(a, b) == IF a >= b THEN a - b ELSE 0

\* add_row, remove_row, increase_cell_size, decrease_cell_size
add_row(rows, step) == WrappingAdd(rows, step)

remove_row(rows, step) ==
    IF SaturatingSub(rows, step) > MIN_ROWS THEN SaturatingSub(rows, step) ELSE MIN_ROWS

\* (variant: the ceiling is applied before the step is added)
increase_after_min(size) == F32Add(F32Min(size, MAX_CELL_SIZE), CELL_STEP)

increase_cell_size(size) == F32Min(F32Add(size, CELL_STEP), MAX_CELL_SIZE)

decrease_cell_size(size) == F32Max(F32Add(size, -CELL_STEP), MIN_CELL_SIZE)


\* ------------------------------------------------------------- the grid
\* (a / b).floor() in f32 for a whole number a: the division of two whole
\* numbers below 2^24 is exact enough in f32 that its floor is the floor of
\* the true quotient; a zero divisor gives an infinity or NaN, an infinite
\* one gives zero
FloorDiv(a, b) ==
    CASE b.k = "nan" -> NaN
      [] b.k = "inf" -> Fin(0)
      [] b.v = 0 -> IF a > 0 THEN Inf(1) ELSE IF a < 0 THEN Inf(-1) ELSE NaN
      [] b.v > 0 -> Fin(a \div b.v)
      [] OTHER -> Fin((-a) \div (-b.v))

\* `x as usize`: NaN gives 0, the cast saturates at both ends of the word
AsUsize(x) ==
    CASE x.k = "nan" -> 0
      [] x.k = "inf" -> IF x.v > 0 THEN UsizeMax ELSE 0
      [] OTHER -> IF x.v < 0 THEN 0 ELSE IF x.v > UsizeMax THEN UsizeMax ELSE x.v

\* GridBench::calculate_col_count
calculate_col_count(size, width) ==
    LET available_width == width - GRID_PADDING * 2
        cell_with_gap == F32Add(size, CELL_GAP)
    IN  AsUsize(F32Max(FloorDiv(available_width + CELL_GAP, cell_with_gap), 1))

\* f32 arithmetic on positive numbers m * 2^e with 2^23 <= m < 2^24
Pow2(n) == 2 ^ n

RECURSIVE BitLen(_)
BitLen(n) == IF n = 0 THEN 0 ELSE 1 + BitLen(n \div 2)

\* n with its lowest s bits rounded away, to nearest and ties to even
RoundShift(n, s) ==
    LET q == n \div Pow2(s)
        r == n % Pow2(s)
        half == Pow2(s) \div 2
    IN  IF s = 0 THEN n
        ELSE IF r > half \/ (r = half /\ q % 2 = 1) THEN q + 1 ELSE q

\* the bits of rem / d after the binary point, `bits` of them, with the
\* remainder that is left (long division)
RECURSIVE Quotient(_, _, _, _)
Quotient(acc, rem, d, bits) ==
    IF bits = 0 THEN [m |-> acc, rem |-> rem]
    ELSE IF 2 * rem >= d THEN Quotient(2 * acc + 1, 2 * rem - d, d, bits - 1)
    ELSE Quotient(2 * acc, 2 * rem, d, bits - 1)

\* n as f32 / d as f32 for whole numbers 0 < n < d < 2^24: the quotient
\* rounded to 24 significant bits, as m * 2^(-e)
F32Quotient(n, d) ==
    LET k == CHOOSE k \in 1..31 : n * Pow2(k) >= d /\ n * Pow2(k - 1) < d
        q == Quotient(1, n * Pow2(k) - d, d, 23)
        up == 2 * q.rem > d \/ (2 * q.rem = d /\ q.m % 2 = 1)
    IN  [m |-> IF up THEN q.m + 1 ELSE q.m, e |-> k + 23]

\* (x * 360.0) as u32 for the f32 x = m * 2^(-e): the product is rounded to
\* 24 significant bits, the cast drops the fraction
Times360AsU32(x) ==
    LET p == x.m * 45
        s == IF BitLen(p) > 24 THEN BitLen(p) - 24 ELSE 0
        r == RoundShift(p, s)
        down == x.e - 3 - s
    IN  IF down <= 0 THEN r * Pow2(-down) ELSE r \div Pow2(down)

Max(a, b) == IF a > b THEN a ELSE b

\* (cell_num as f32 / total_cells.max(1) as f32 * 360.0) as u32. An index
\* that is not below the total comes only with a total_cells that has wrapped
\* around, which no pass outlives: its hue is given to whole turns.
hue(cell_num, total) ==
    IF cell_num = 0 THEN 0
    ELSE IF cell_num >= Max(total, 1)
         THEN 360 * (cell_num \div Max(total, 1))
    ELSE Times360AsU32(F32Quotient(cell_num, Max(total, 1)))

\* hsv_to_rgb: gpui::hsla(h / 360, s / 100, v / 100, 1.0), each component
\* kept as the fraction it is computed from
hsv_to_rgb(h, sat, v) == [h |-> <<h, 360>>, s |-> <<sat, 100>>, l |-> <<v, 100>>, a |-> 1]

\* (variant: the index runs down the columns)
cell_num_by_column(row, col, cols) == col * cols + row

\* let cell_num = row * col_count + col
cell_num_of(row, col, cols) == row * cols + col

\* The cell the inner closure builds for (row, col).
Cell(row, col, cols, total) ==
    [cell_num |-> cell_num_of(row, col, cols),
     hue |-> hue(cell_num_of(row, col, cols), total)]

\* ElementId::NamedInteger("cell", cell_num), and the two colours of a cell
ElementId(cell) == <<"cell", cell.cell_num>>
Color(cell) == hsv_to_rgb(cell.hue, 70, 60)
HoverColor(cell) == hsv_to_rgb(cell.hue, 80, 80)

\* (0..col_count).map(..): the cells of one row
RowOfCells(row, cols, total) == [c \in 1..cols |-> Cell(row, c - 1, cols, total)]

\* (0..row_count).map(..), each row's children in turn: rows `row` and after
RECURSIVE Generate(_, _, _, _)
Generate(row, rows, cols, total) ==
    IF row >= rows THEN <<>>
    ELSE RowOfCells(row, cols, total) \o Generate(row + 1, rows, cols, total)

\* row_count * col_count is more than the word holds (the multiplication
\* panics where overflow checks are compiled in) or as many as the word
\* holds: in both the pass ends the process before it has built the cells
TooManyCells(rows, cols) == rows * cols >= UsizeMax

\* ---------------------------------------------------------------- actions
\* Time passes between two events.
Tick ==
    /\ clock < MaxClock
    /\ clock' = clock + 1
    /\ UNCHANGED <<render_fps, frame_fps, render_samples, frame_samples>>
    /\ UNCHANGED <<loopVars, logVars, threadVars, benchVars, build, panicked>>

\* One call of FpsCounter::record().
RecordCall ==
    /\ Len(frame_samples) < MaxRecords
    /\ frame_fps' = Record(frame_fps, clock)
    /\ frame_samples' = Append(frame_samples, clock)
    /\ UNCHANGED <<clock, render_fps, render_samples>>
    /\ UNCHANGED <<loopVars, logVars, threadVars, benchVars, build, panicked>>

\* (variant: the callback is registered twice)
ScheduleTwice(n) == n + 2

\* FpsView::schedule_frame_callback: one more callback for the next frame
ScheduleFrameCallback(n) == n + 1

\* (variant: the callback holds a handle that always resolves)
UpgradeAlways(alive) == TRUE

\* The callback's `if let Some(this) = this_weak.upgrade()`
Upgrade(alive) == alive

\* (variant: every invocation records two samples)
RECURSIVE RecordTimesTwice(_, _, _)
RecordTimesTwice(c, now, n) ==
    IF n = 0 THEN c ELSE Record(Record(RecordTimesTwice(c, now, n - 1), now), now)

\* the samples n invocations of the callback record into frame_fps
RECURSIVE RecordTimes(_, _, _)
RecordTimes(c, now, n) == IF n = 0 THEN c ELSE Record(RecordTimes(c, now, n - 1), now)

\* the callbacks registered by n invocations that found their owner
RECURSIVE Reschedule(_)
Reschedule(n) == IF n = 0 THEN 0 ELSE ScheduleFrameCallback(Reschedule(n - 1))

\* The callbacks of FpsView, of `taken` invoked, that do their work.
Live(taken, alive) == IF Upgrade(alive) THEN taken ELSE 0

\* The host presents a frame: it takes the callbacks registered with
\* on_next_frame and invokes each once. A callback of FpsView whose weak handle
\* upgrades records a sample, notifies and registers itself again; one whose
\* owner is gone does nothing. The animation-frame request notifies the view.
NextFrame ==
    /\ ~panicked
    /\ pending > 0 \/ raf
    /\ Len(frame_samples) + Live(pending, owner_alive) <= MaxFrames
    /\ frame_fps' = RecordTimes(frame_fps, clock, Live(pending, owner_alive))
    /\ frame_samples' = frame_samples \o [i \in 1..Live(pending, owner_alive) |-> clock]
    /\ pending' = Reschedule(Live(pending, owner_alive))
    /\ dirty' = (dirty \/ Live(pending, owner_alive) > 0 \/ (raf /\ owner_alive))
    /\ raf' = FALSE
    /\ UNCHANGED <<clock, render_fps, render_samples, owner_alive, frame_number>>
    /\ UNCHANGED <<logVars, threadVars, benchVars, build, panicked>>

\* (variant: the results are unwrapped, so a failed call panics)
LogFrameUnwraps(o) == ~o.trunc \/ ~o.hdr \/ ~o.app \/ o.parts < RowParts

\* `if let Ok(..)` and `let _ =` drop every error: log_frame never unwinds
LogFrameUnwinds(o) == FALSE

\* log_frame(&diag) as FpsView::render calls it, with the I/O outcomes o
Emit(o) ==
    /\ file' = LogFrame(init_once, file, frame_number + 1, o)
    /\ init_once' = "done"
    /\ init_io' = IF OnceRuns(init_once) THEN Append(init_io, InitResult(o)) ELSE init_io
    /\ appended' = appended \o RowWritten(init_once, file, frame_number + 1, o)
    /\ last_io' = o
    /\ io_faults' = io_faults + Faults(o)
    /\ emitted' = Append(emitted, frame_number + 1)
    /\ panicked' = LogFrameUnwinds(o)

\* A render pass of the window: FpsView::render requests an animation frame,
\* records a sample into render_fps and, in a fiber build, emits the frame's
\* diagnostics.
Draw ==
    /\ ~panicked
    /\ owner_alive
    /\ dirty
    /\ frame_number < MaxDraws
    /\ raf' = TRUE
    /\ render_fps' = Record(render_fps, clock)
    /\ render_samples' = Append(render_samples, clock)
    /\ frame_number' = frame_number + 1
    /\ dirty' = FALSE
    /\ IF build.fiber
       THEN \E o \in Outcomes(init_once, file) : Emit(o)
       ELSE UNCHANGED <<logVars, panicked>>
    /\ UNCHANGED <<clock, frame_fps, frame_samples, owner_alive, pending>>
    /\ UNCHANGED <<threadVars, benchVars, build>>

\* The window is closed: GridBench and with it the last strong handle of
\* FpsView are released.
CloseWindow ==
    /\ owner_alive
    /\ owner_alive' = FALSE
    /\ UNCHANGED <<pending, raf, dirty, frame_number>>
    /\ UNCHANGED <<counterVars, logVars, threadVars, benchVars, build, panicked>>

\* ------------------------------------------------- log_frame, by statement
\* Threads that call log_frame at the same time, one statement per step.
Threads == 1..NThreads

\* (variant: a flag in place of Once, callers do not wait)
OnceNeverWaits(once) == FALSE

\* Once::call_once: a caller that finds the closure running waits until it
\* has ended
OnceWaits(once) == once = "running"

\* A thread calls log_frame(&diag) for a new frame.
Enter(t) ==
    /\ pc[t] = "idle"
    /\ Len(emitted) < MaxEmissions
    /\ frame_number' = frame_number + 1
    /\ emitted' = Append(emitted, frame_number + 1)
    /\ tframe' = [tframe EXCEPT ![t] = frame_number + 1]
    /\ pc' = [pc EXCEPT ![t] = "call_once"]
    /\ UNCHANGED <<init_once, file, init_io, appended, last_io, io_faults, tpart>>
    /\ UNCHANGED <<owner_alive, pending, raf, dirty>>
    /\ UNCHANGED <<counterVars, benchVars, build, panicked>>

\* INIT.call_once(..): the thread becomes the one that runs the closure, or
\* passes because the closure has run, or waits.
CallOnce(t) ==
    /\ pc[t] = "call_once"
    /\ ~OnceWaits(init_once)
    /\ IF OnceRuns(init_once)
       THEN init_once' = "running" /\ pc' = [pc EXCEPT ![t] = "init_open"]
       ELSE UNCHANGED init_once /\ pc' = [pc EXCEPT ![t] = "app_open"]
    /\ UNCHANGED <<file, init_io, appended, last_io, io_faults, emitted, tframe, tpart>>
    /\ UNCHANGED <<counterVars, loopVars, benchVars, build, panicked>>

\* The closure's open(create, write, truncate); the closure ends here when it
\* fails.
InitOpen(t) ==
    /\ pc[t] = "init_open"
    /\ \E ok \in BOOLEAN :
        /\ file' = OpenTruncate(file, ok)
        /\ io_faults' = io_faults + (IF ok THEN 0 ELSE 1)
        /\ IF ok
           THEN pc' = [pc EXCEPT ![t] = "init_write"] /\ UNCHANGED <<init_once, init_io>>
           ELSE /\ pc' = [pc EXCEPT ![t] = "app_open"]
                /\ init_once' = "done"
                /\ init_io' = Append(init_io, "open_failed")
    /\ UNCHANGED <<appended, last_io, emitted, tframe, tpart>>
    /\ UNCHANGED <<counterVars, loopVars, benchVars, build, panicked>>

\* The closure's writeln! of the header, which ends the closure.
InitWrite(t) ==
    /\ pc[t] = "init_write"
    /\ \E ok \in BOOLEAN :
        /\ file' = WritePiece(file, Header, ok)
        /\ io_faults' = io_faults + (IF ok THEN 0 ELSE 1)
        /\ init_io' = Append(init_io, IF ok THEN "ok" ELSE "write_failed")
    /\ init_once' = "done"
    /\ pc' = [pc EXCEPT ![t] = "app_open"]
    /\ UNCHANGED <<appended, last_io, emitted, tframe, tpart>>
    /\ UNCHANGED <<counterVars, loopVars, benchVars, build, panicked>>

\* open(append); log_frame returns when it fails.
AppOpen(t) ==
    /\ pc[t] = "app_open"
    /\ \E ok \in BOOLEAN :
        /\ io_faults' = io_faults + (IF OpenAppend(file, ok) THEN 0 ELSE 1)
        /\ IF OpenAppend(file, ok)
           THEN pc' = [pc EXCEPT ![t] = "app_write"] /\ tpart' = [tpart EXCEPT ![t] = 1]
           ELSE pc' = [pc EXCEPT ![t] = "idle"] /\ UNCHANGED tpart
    /\ UNCHANGED <<init_once, file, init_io, appended, last_io, emitted, tframe>>
    /\ UNCHANGED <<counterVars, loopVars, benchVars, build, panicked>>

\* One write of the row's writeln!; log_frame returns after the last piece or
\* a failed write.
AppWrite(t) ==
    /\ pc[t] = "app_write"
    /\ \E ok \in BOOLEAN :
        /\ file' = WritePiece(file, RowPart(tframe[t], tpart[t]), ok)
        /\ io_faults' = io_faults + (IF ok THEN 0 ELSE 1)
        /\ appended' = IF ok THEN Append(appended, RowPart(tframe[t], tpart[t]))
                       ELSE appended
        /\ IF ok /\ tpart[t] < RowParts
           THEN tpart' = [tpart EXCEPT ![t] = @ + 1] /\ UNCHANGED pc
           ELSE pc' = [pc EXCEPT ![t] = "idle"] /\ UNCHANGED tpart
    /\ UNCHANGED <<init_once, init_io, last_io, emitted, tframe>>
    /\ UNCHANGED <<counterVars, loopVars, benchVars, build, panicked>>

\* ------------------------------------------------- GridBench's controls
\* (variant: the listener leaves the view as it was)
NotifyNot(was_dirty) == was_dirty

\* cx.notify() in a listener: the view is marked for the next render pass
Notify(was_dirty) == TRUE

NoTrip == [state |-> "none", orig |-> 0]

\* no pass has read the config yet
NoPass == [passes |-> 0, clicks |-> 0, row_count |-> 0, cell_size |-> Fin(0),
           viewport |-> 0]

\* The "row+" listener: add_row(), then cx.notify().
AddRow ==
    /\ ~panicked
    /\ owner_alive
    /\ clicks < MaxClicks
    /\ clicks' = clicks + 1
    /\ IF AddOverflows(row_count, step_size) /\ build.debug
       THEN panicked' = TRUE /\ UNCHANGED <<row_count, dirty, round_trip, last_op>>
       ELSE /\ row_count' = add_row(row_count, step_size)
            /\ dirty' = Notify(dirty)
            /\ round_trip' = [state |-> "added", orig |-> row_count]
            /\ last_op' = "row+"
            /\ UNCHANGED panicked
    /\ UNCHANGED <<cell_size, step_size, enable_hover, enable_click>>
    /\ UNCHANGED <<owner_alive, pending, raf, frame_number>>
    /\ UNCHANGED <<counterVars, logVars, threadVars, gridVars, mainVars, build>>

\* (variant: the listener also resets the cell size)
RemoveRowResets ==
    /\ ~panicked
    /\ owner_alive
    /\ clicks < MaxClicks
    /\ clicks' = clicks + 1
    /\ row_count' = remove_row(row_count, step_size)
    /\ cell_size' = Fin(DEFAULT_CELL_SIZE)
    /\ dirty' = Notify(dirty)
    /\ round_trip' = NoTrip
    /\ last_op' = "row-"
    /\ UNCHANGED <<step_size, enable_hover, enable_click>>
    /\ UNCHANGED <<owner_alive, pending, raf, frame_number>>
    /\ UNCHANGED <<counterVars, logVars, threadVars, gridVars, mainVars, build, panicked>>

\* The "row-" listener: remove_row(), then cx.notify().
RemoveRow ==
    /\ ~panicked
    /\ owner_alive
    /\ clicks < MaxClicks
    /\ clicks' = clicks + 1
    /\ row_count' = remove_row(row_count, step_size)
    /\ dirty' = Notify(dirty)
    /\ round_trip' = IF round_trip.state = "added"
                     THEN [round_trip EXCEPT !.state = "removed"] ELSE NoTrip
    /\ last_op' = "row-"
    /\ UNCHANGED <<cell_size, step_size, enable_hover, enable_click>>
    /\ UNCHANGED <<owner_alive, pending, raf, frame_number>>
    /\ UNCHANGED <<counterVars, logVars, threadVars, gridVars, mainVars, build, panicked>>

\* The "size+" listener: increase_cell_size(), then cx.notify().
IncreaseCellSize ==
    /\ ~panicked
    /\ owner_alive
    /\ clicks < MaxClicks
    /\ clicks' = clicks + 1
    /\ cell_size' = increase_cell_size(cell_size)
    /\ dirty' = Notify(dirty)
    /\ round_trip' = NoTrip
    /\ last_op' = "size+"
    /\ UNCHANGED <<row_count, step_size, enable_hover, enable_click>>
    /\ UNCHANGED <<owner_alive, pending, raf, frame_number>>
    /\ UNCHANGED <<counterVars, logVars, threadVars, gridVars, mainVars, build, panicked>>

\* The "size-" listener: decrease_cell_size(), then cx.notify().
DecreaseCellSize ==
    /\ ~panicked
    /\ owner_alive
    /\ clicks < MaxClicks
    /\ clicks' = clicks + 1
    /\ cell_size' = decrease_cell_size(cell_size)
    /\ dirty' = Notify(dirty)
    /\ round_trip' = NoTrip
    /\ last_op' = "size-"
    /\ UNCHANGED <<row_count, step_size, enable_hover, enable_click>>
    /\ UNCHANGED <<owner_alive, pending, raf, frame_number>>
    /\ UNCHANGED <<counterVars, logVars, threadVars, gridVars, mainVars, build, panicked>>

\* GridBench::render: a render pass reads the viewport width and the config,
\* computes col_count and total_cells and generates the cells.
RenderGrid ==
    /\ ~panicked
    /\ owner_alive
    /\ dirty
    /\ frame_number < MaxDraws
    /\ frame_number' = frame_number + 1
    /\ dirty' = FALSE
    /\ IF TooManyCells(row_count, calculate_col_count(cell_size, viewport))
       THEN panicked' = TRUE /\ UNCHANGED <<col_count, total_cells, cells, drawn>>
       ELSE /\ col_count' = calculate_col_count(cell_size, viewport)
            /\ total_cells' = row_count * calculate_col_count(cell_size, viewport)
            /\ cells' = Generate(0, row_count, calculate_col_count(cell_size, viewport),
                                 row_count * calculate_col_count(cell_size, viewport))
            /\ drawn' = [passes |-> drawn.passes + 1, clicks |-> clicks,
                         row_count |-> row_count, cell_size |-> cell_size,
                         viewport |-> viewport]
            /\ UNCHANGED panicked
    /\ UNCHANGED <<row_count, cell_size, step_size, enable_hover, enable_click>>
    /\ UNCHANGED <<round_trip, last_op, clicks, viewport, mainVars>>
    /\ UNCHANGED <<owner_alive, pending, raf>>
    /\ UNCHANGED <<counterVars, logVars, threadVars, build>>

\* The host resizes the window, which is drawn again.
Resize ==
    /\ ~panicked
    /\ owner_alive
    /\ \E w \in Widths \ {viewport} : viewport' = w
    /\ dirty' = TRUE
    /\ UNCHANGED <<row_count, cell_size, step_size, enable_hover, enable_click>>
    /\ UNCHANGED <<round_trip, last_op, clicks, col_count, total_cells, cells, drawn, mainVars>>
    /\ UNCHANGED <<owner_alive, pending, raf, frame_number>>
    /\ UNCHANGED <<counterVars, logVars, threadVars, build, panicked>>

\* --------------------------------------------------------- specifications
\* The state of the process when main begins under the environment e, of a
\* build b, with frame_log.csv as an earlier run left it (f): nothing is
\* constructed yet.
Boot(e, b, f) ==
    /\ clock = 0
    /\ render_fps = FpsCounterNew
    /\ frame_fps = FpsCounterNew
    /\ render_samples = <<>>
    /\ frame_samples = <<>>
    /\ raf = FALSE
    /\ frame_number = 0
    /\ init_once = "new"
    /\ file = f
    /\ init_io = <<>>
    /\ appended = <<>>
    /\ last_io = NoIo
    /\ io_faults = 0
    /\ emitted = <<>>
    /\ pc = [t \in Threads |-> "idle"]
    /\ tframe = [t \in Threads |-> 0]
    /\ tpart = [t \in Threads |-> 0]
    /\ round_trip = NoTrip
    /\ last_op = "none"
    /\ clicks = 0
    /\ col_count = 0
    /\ total_cells = 0
    /\ cells = <<>>
    /\ drawn = NoPass
    /\ env = e
    /\ build = b
    /\ panicked = FALSE
    /\ launched = FALSE
    /\ owner_alive = FALSE
    /\ pending = 0
    /\ dirty = FALSE
    /\ row_count = 0
    /\ cell_size = Fin(0)
    /\ step_size = 0
    /\ enable_hover = FALSE
    /\ enable_click = FALSE
    /\ viewport = 0
    /\ window_width = Fin(0)
    /\ window_height = Fin(0)

\* main: the window size is read from the environment, the window is opened
\* and its closure runs FpsView::new, schedule_frame_callback and
\* GridBench::new.
Launch ==
    /\ ~launched
    /\ launched' = TRUE
    /\ window_width' = env_f32(env.width, Fin(DEFAULT_WIDTH))
    /\ window_height' = env_f32(env.height, Fin(DEFAULT_HEIGHT))
    /\ viewport' \in HostWidths(env_f32(env.width, Fin(DEFAULT_WIDTH)))
    /\ owner_alive' = TRUE
    /\ pending' = ScheduleFrameCallback(pending)
    /\ dirty' = TRUE
    /\ row_count' = GridBenchNew(env).row_count
    /\ cell_size' = GridBenchNew(env).cell_size
    /\ step_size' = GridBenchNew(env).step_size
    /\ enable_hover' = GridBenchNew(env).enable_hover
    /\ enable_click' = GridBenchNew(env).enable_click
    /\ UNCHANGED <<round_trip, last_op, clicks, col_count, total_cells, cells, drawn, env>>
    /\ UNCHANGED <<raf, frame_number>>
    /\ UNCHANGED <<counterVars, logVars, threadVars, build, panicked>>

\* The state once main's window closure has run, the window having the
\* viewport width w: nothing has been rendered or logged.
Start(e, b, f, w) ==
    /\ clock = 0
    /\ render_fps = FpsCounterNew
    /\ frame_fps = FpsCounterNew
    /\ render_samples = <<>>
    /\ frame_samples = <<>>
    /\ raf = FALSE
    /\ frame_number = 0
    /\ init_once = "new"
    /\ file = f
    /\ init_io = <<>>
    /\ appended = <<>>
    /\ last_io = NoIo
    /\ io_faults = 0
    /\ emitted = <<>>
    /\ pc = [t \in Threads |-> "idle"]
    /\ tframe = [t \in Threads |-> 0]
    /\ tpart = [t \in Threads |-> 0]
    /\ round_trip = NoTrip
    /\ last_op = "none"
    /\ clicks = 0
    /\ col_count = 0
    /\ total_cells = 0
    /\ cells = <<>>
    /\ drawn = NoPass
    /\ env = e
    /\ build = b
    /\ panicked = FALSE
    /\ launched = TRUE
    /\ owner_alive = TRUE
    /\ pending = ScheduleFrameCallback(0)
    /\ dirty = TRUE
    /\ row_count = GridBenchNew(e).row_count
    /\ cell_size = GridBenchNew(e).cell_size
    /\ step_size = GridBenchNew(e).step_size
    /\ enable_hover = GridBenchNew(e).enable_hover
    /\ enable_click = GridBenchNew(e).enable_click
    /\ w \in HostWidths(env_f32(e.width, Fin(DEFAULT_WIDTH)))
    /\ viewport = w
    /\ window_width = env_f32(e.width, Fin(DEFAULT_WIDTH))
    /\ window_height = env_f32(e.height, Fin(DEFAULT_HEIGHT))

\* FpsCounter::record() alone, on one counter.
InitCounter == Start(NoEnv, [fiber |-> FALSE, debug |-> FALSE], NoFile, DEFAULT_WIDTH)
NextCounter == Tick \/ RecordCall
SpecCounter == InitCounter /\ [][NextCounter]_vars

\* The frame loop and the render passes of FpsView, with and without the
\* diagnostics of a fiber build.
InitLoop ==
    \E fiber \in BOOLEAN, f \in {NoFile, StaleFile} :
        Start(NoEnv, [fiber |-> fiber, debug |-> FALSE], f, DEFAULT_WIDTH)
NextLoop == Tick \/ NextFrame \/ Draw \/ CloseWindow
SpecLoop == InitLoop /\ [][NextLoop]_vars

\* log_frame called from several threads at once.
InitLog ==
    \E f \in {NoFile, StaleFile} :
        Start(NoEnv, [fiber |-> TRUE, debug |-> FALSE], f, DEFAULT_WIDTH)
NextLog ==
    \E t \in Threads :
        Enter(t) \/ CallOnce(t) \/ InitOpen(t) \/ InitWrite(t) \/ AppOpen(t) \/ AppWrite(t)
SpecLog == InitLog /\ [][NextLog]_vars

\* The controller under every environment and both build profiles.
InitBench ==
    \E e \in BenchEnvs, debug \in BOOLEAN :
        Start(e, [fiber |-> FALSE, debug |-> debug], NoFile, DEFAULT_WIDTH)
NextBench == AddRow \/ RemoveRow \/ IncreaseCellSize \/ DecreaseCellSize
SpecBench == InitBench /\ [][NextBench]_vars

\* The render passes of GridBench between its controls and the resizes of
\* the window.
InitGrid ==
    \E e \in GridEnvs, w \in Widths :
        Start(e, [fiber |-> FALSE, debug |-> FALSE], NoFile, w)
NextGrid ==
    AddRow \/ RemoveRow \/ IncreaseCellSize \/ DecreaseCellSize \/ RenderGrid \/ Resize
SpecGrid == InitGrid /\ [][NextGrid]_vars

\* The controls of GridBench between the frames and the render passes of
\* FpsView, in a build with diagnostics.
InitPanel == Start(NoEnv, [fiber |-> TRUE, debug |-> FALSE], NoFile, DEFAULT_WIDTH)
NextPanel ==
    NextFrame \/ Draw \/ AddRow \/ RemoveRow \/ IncreaseCellSize \/ DecreaseCellSize
SpecPanel == InitPanel /\ [][NextPanel]_vars

\* main under every environment.
InitEnv == \E e \in Envs : Boot(e, [fiber |-> FALSE, debug |-> FALSE], NoFile)
NextEnv == Launch
SpecEnv == InitEnv /\ [][NextEnv]_vars

\* ------------------------------------------------------------------ claims
LastN(s, n) == IF Len(s) <= n THEN s ELSE SubSeq(s, Len(s) - n + 1, Len(s))

\* C1: after every record() the window holds at most 60 samples, and it is
\* always the (at most 60) most recently recorded samples in insertion order;
\* from the 61st call on it holds exactly 60.
WindowIsLast60 ==
    /\ Len(frame_fps.times) <= FRAME_HISTORY
    /\ frame_fps.times = LastN(frame_samples, FRAME_HISTORY)
    /\ (Len(frame_samples) >= FRAME_HISTORY + 1 => Len(frame_fps.times) = FRAME_HISTORY)

\* a 61st call has evicted a sample that is older than the oldest one kept
WindowHasEvicted ==
    /\ Len(frame_samples) >= FRAME_HISTORY + 1
    /\ frame_fps.times[1] > frame_samples[1]

\* C2: once the owner is gone, an invocation of the frame callback records no
\* sample, notifies nothing, registers no callback and does not panic; from
\* then on no callback is pending, no sample is recorded and the owner stays
\* gone.
LoopStopsWithOwner ==
    /\ [][(~owner_alive /\ NextFrame) =>
            /\ frame_fps' = frame_fps
            /\ frame_samples' = frame_samples
            /\ dirty' = dirty
            /\ pending' = 0
            /\ ~panicked']_vars
    /\ [][~owner_alive =>
            /\ ~owner_alive'
            /\ pending' <= pending
            /\ frame_samples' = frame_samples
            /\ render_samples' = render_samples
            /\ frame_fps' = frame_fps
            /\ render_fps' = render_fps]_vars

\* the loop ran, the window was closed, and the callback was invoked once more
LoopHasStopped ==
    /\ ~owner_alive
    /\ pending = 0
    /\ Len(frame_samples) >= 1

\* C3: with the owner alive every invocation of the frame callback records
\* exactly one sample into frame_fps, notifies, and leaves exactly one callback
\* registered; at most one callback is pending in every state, and exactly one
\* while the owner is alive.
LoopRearmsOnce ==
    /\ [](pending <= 1 /\ (owner_alive => pending = 1))
    /\ [][(owner_alive /\ NextFrame) =>
            /\ frame_samples' = Append(frame_samples, clock)
            /\ frame_fps' = Record(frame_fps, clock)
            /\ render_samples' = render_samples
            /\ dirty'
            /\ pending' = 1]_vars

\* the callback has run twice with its owner alive and is registered again
LoopHasRearmed ==
    /\ owner_alive
    /\ Len(frame_samples) >= 2
    /\ pending = 1

RECURSIVE RowsOf(_)
RowsOf(data) ==
    IF data = <<>> THEN <<>>
    ELSE IF Head(data).kind = "row" THEN <<Head(data)>> \o RowsOf(Tail(data))
    ELSE RowsOf(Tail(data))

RECURSIVE FullRows(_)
FullRows(frames) ==
    IF frames = <<>> THEN <<>>
    ELSE [i \in 1..RowParts |-> RowPart(Head(frames), i)] \o FullRows(Tail(frames))

\* C4: after N >= 1 emissions made one after the other with no open or write
\* failing, the file is the header followed by the N rows in emission order
\* (so the truncation and the header happened once, before the first row, and
\* every later emission appended its row after the lines already there).
LogIsHeaderThenRows ==
    (Len(emitted) >= 1 /\ io_faults = 0) =>
        /\ file.exists
        /\ file.data = <<Header>> \o FullRows(emitted)
        /\ init_io = <<"ok">>

\* every render pass of a fiber build has logged its row over a stale file
LogHasRows ==
    /\ Len(emitted) = MaxDraws
    /\ io_faults = 0

\* C5: however the statements of concurrent log_frame calls interleave, the
\* initialisation runs once, no thread opens the file for appending or writes
\* a row before it has ended, every row piece written is still in the file (in
\* the order written), and a header that was written is the first line.
HeaderOnceBeforeRows ==
    /\ Len(init_io) <= 1
    /\ Cardinality({t \in Threads : pc[t] \in {"init_open", "init_write"}}) <= 1
    /\ \A t \in Threads :
          /\ pc[t] \in {"init_open", "init_write"} => init_once = "running" /\ init_io = <<>>
          /\ pc[t] \in {"app_open", "app_write"} => init_once = "done" /\ Len(init_io) = 1
    /\ (appended # <<>> => init_once = "done")
    /\ RowsOf(file.data) = appended
    /\ (init_io = <<"ok">> => file.exists /\ file.data = <<Header>> \o appended)

\* two threads have written pieces of their rows in turn, after the header
RowsInterleaved ==
    /\ Len(file.data) >= 3
    /\ file.data[1] = Header
    /\ file.data[2].frame # file.data[3].frame
    /\ \A t \in Threads : pc[t] = "app_write"

\* C6: the rate is finite and not negative in every state.
RateIsFinite ==
    /\ frame_fps.fps.den > 0
    /\ frame_fps.fps.num >= 0

\* C7: row_count >= 1 and 8 <= cell_size <= 128 in every state.
ConfigInRange ==
    /\ row_count >= MIN_ROWS
    /\ cell_size.k = "fin"
    /\ cell_size.v >= MIN_CELL_SIZE
    /\ cell_size.v <= MAX_CELL_SIZE

\* the destination of the emission with outcomes o could not be opened (every
\* open failed) or could not be written (every write failed)
Unwritable(o, ran_init) ==
    \/ ~o.app /\ (ran_init => ~o.trunc)
    \/ o.parts = 0 /\ (ran_init /\ o.trunc => ~o.hdr)

\* C8: a render pass whose emission meets an unwritable destination ends
\* without panic, puts no piece into the file, does not leave the
\* initialisation to be tried again, and changes the estimators, the frame
\* loop and the config exactly as a render pass does whose emission succeeds.
FailedEmissionIsSilent ==
    [][(Draw /\ build.fiber /\ Unwritable(last_io', OnceRuns(init_once))) =>
            /\ ~panicked'
            /\ file'.data \in {file.data, <<>>}
            /\ appended' = appended
            /\ init_once' = "done"
            /\ render_fps' = Record(render_fps, clock)
            /\ frame_fps' = frame_fps
            /\ pending' = pending
            /\ raf'
            /\ ~dirty'
            /\ frame_number' = frame_number + 1
            /\ UNCHANGED benchVars]_vars

\* an emission failed, and a later render pass logged its row
EmissionFailedThenLogged ==
    /\ Len(emitted) >= 2
    /\ io_faults >= 1
    /\ last_io = NoIo
    /\ Len(render_samples) = Len(emitted)
    /\ Len(appended) = RowParts
    /\ ~panicked

\* C9: the rate is 0 until two samples were recorded; with two samples at
\* t0 < t1 it is 1 / (t1 - t0); with n >= 2 samples in the window it is the
\* f64 quotient (n - 1) / (newest - oldest) of the samples kept.
RateIsQuotient ==
    LET w == frame_fps.times
        n == Len(frame_fps.times)
        r == frame_fps.fps
    IN  /\ Len(frame_samples) < 2 => r = [num |-> 0, den |-> 1]
        /\ (Len(frame_samples) = 2 /\ frame_samples[1] < frame_samples[2]) =>
              r.num = 1 /\ r.den = frame_samples[2] - frame_samples[1]
        /\ n >= 2 =>
              /\ r.num * (w[n] - w[1]) = (n - 1) * r.den
              /\ (w[n] > w[1] => r.den > 0 /\ GCD(r.num, r.den) = 1)
              /\ (w[n] = w[1] => r = [num |-> 1, den |-> 0])

\* the window is full, has evicted an older sample and spans some time
RateOverFullWindow ==
    /\ Len(frame_samples) >= FRAME_HISTORY + 1
    /\ frame_samples[1] < frame_fps.times[1]
    /\ frame_fps.times[1] < frame_fps.times[FRAME_HISTORY]

\* C10: a remove_row() that follows an add_row() leaves row_count as it was
\* before the add_row().
RoundTripRestores ==
    round_trip.state = "removed" => row_count = round_trip.orig

\* C11: add_row() never panics and leaves row_count at the previous
\* row_count plus step_size, without wrap-around.
AddRowAddsStep ==
    /\ ~panicked
    /\ (last_op = "row+" => row_count = round_trip.orig + step_size)

\* x is a number (or -inf) not above hi; x is a number (or +inf) not below lo
NotAbove(x, hi) == (x.k = "fin" /\ x.v <= hi) \/ (x.k = "inf" /\ x.v < 0)
NotBelow(x, lo) == (x.k = "fin" /\ x.v >= lo) \/ (x.k = "inf" /\ x.v > 0)

\* C12: remove_row() leaves row_count = max(1, previous - step_size) >= 1;
\* increase_cell_size() leaves min(128, previous + 4), never above 128;
\* decrease_cell_size() leaves max(8, previous - 4), never below 8. For a
\* previous cell size that is NaN or infinite, min and max are those of f32:
\* NaN is ignored, +inf is above and -inf below every number.
ClampsHold ==
    /\ [][RemoveRow =>
            /\ row_count' >= 1
            /\ row_count' = IF row_count - step_size > 1
                            THEN row_count - step_size ELSE 1]_vars
    /\ [][IncreaseCellSize =>
            /\ NotAbove(cell_size', 128)
            /\ cell_size.k = "fin" =>
                  cell_size' = Fin(IF cell_size.v + 4 < 128 THEN cell_size.v + 4 ELSE 128)
            /\ (cell_size.k = "nan" \/ cell_size = Inf(1)) => cell_size' = Fin(128)
            /\ cell_size = Inf(-1) => cell_size' = Inf(-1)]_vars
    /\ [][DecreaseCellSize =>
            /\ NotBelow(cell_size', 8)
            /\ cell_size.k = "fin" =>
                  cell_size' = Fin(IF cell_size.v - 4 > 8 THEN cell_size.v - 4 ELSE 8)
            /\ (cell_size.k = "nan" \/ cell_size = Inf(-1)) => cell_size' = Fin(8)
            /\ cell_size = Inf(1) => cell_size' = Inf(1)]_vars

\* the size+ control has just been used and left the cell size at the
\* ceiling, in a run that started below the floor of row_count
ClampedAtCeiling ==
    /\ last_op = "size+"
    /\ cell_size = Fin(128)
    /\ row_count = 1
    /\ step_size > 1

\* floor(a / b) of whole numbers, b not 0
FloorOfQuotient(a, b) == IF b > 0 THEN a \div b ELSE (-a) \div (-b)

\* C13: the column count of every render pass is
\* max(1, floor((viewport_width - 2*16 + 4) / (cell_size + 4))), whatever the
\* viewport width and the cell size held, and at least 1; width 800 with cell
\* size 32 gives 21 and width 364 with cell size 32 gives 9.
ColumnsAsSpecified ==
    /\ calculate_col_count(Fin(32), 800) = 21
    /\ calculate_col_count(Fin(32), 364) = 9
    /\ drawn.passes > 0 =>
        /\ col_count >= 1
        /\ drawn.cell_size.k = "fin"
        /\ drawn.cell_size.v + 4 # 0
        /\ col_count = Max(1, FloorOfQuotient(drawn.viewport - 2 * 16 + 4,
                                              drawn.cell_size.v + 4))

\* a is a larger cell size than b
Larger(a, b) == a.k = "fin" /\ b.k = "fin" /\ a.v > b.v

\* C14: the column count of a render pass is the one calculate_col_count
\* gives for its width and cell size; no narrower viewport would have given
\* the pass more columns, no wider one fewer, and a larger cell size held at
\* the same width does not give more columns.
ColumnsMonotonic ==
    drawn.passes > 0 =>
        /\ col_count = calculate_col_count(drawn.cell_size, drawn.viewport)
        /\ \A w \in Widths :
            /\ w <= drawn.viewport => calculate_col_count(drawn.cell_size, w) <= col_count
            /\ w >= drawn.viewport => calculate_col_count(drawn.cell_size, w) >= col_count
        /\ Larger(cell_size, drawn.cell_size) =>
                calculate_col_count(cell_size, drawn.viewport) <= col_count

\* C15: a render pass over R rows and C columns generates R*C cells, the
\* cell of (row, col) at position row*C + col with the linear index
\* row*C + col, so the indices are 0, 1, .., R*C - 1 in order and every
\* element id is unique within the pass.
CellsRowMajor ==
    drawn.passes > 0 =>
        /\ total_cells = drawn.row_count * col_count
        /\ Len(cells) = drawn.row_count * col_count
        /\ \A row \in 0..(drawn.row_count - 1), col \in 0..(col_count - 1) :
                cells[row * col_count + col + 1].cell_num = row * col_count + col
        /\ \A i \in 1..Len(cells) : cells[i].cell_num = i - 1
        /\ \A i, j \in 1..Len(cells) : i # j => ElementId(cells[i]) # ElementId(cells[j])

\* a pass has generated a grid of 4 rows and 5 columns
GridOfTwenty ==
    /\ drawn.passes > 0
    /\ drawn.row_count = 4
    /\ col_count = 5
    /\ Len(cells) = 20

\* C16: every cell's hue is (index / max(1, total_cells)) * 360 in whole
\* degrees, a function of the index and the total only, and lies in [0, 360);
\* hue(0) = 0, and hue(5) = 300 when the total is 6.
HueIsSweep ==
    /\ hue(0, 6) = 0 /\ hue(5, 6) = 300
    /\ drawn.passes > 0 =>
        \A i \in 1..Len(cells) :
            /\ cells[i].hue = (360 * cells[i].cell_num) \div Max(1, total_cells)
            /\ cells[i].hue >= 0 /\ cells[i].hue < 360
            /\ cells[i].cell_num = 0 => cells[i].hue = 0

Control == AddRow \/ RemoveRow \/ IncreaseCellSize \/ DecreaseCellSize

\* C19: every run of a control's listener leaves a render pass requested,
\* also when the config is as it was; a render pass reads the config as the
\* listeners left it; and while no pass is requested the geometry of the
\* latest pass is the one of the present config.
ControlsRequestRender ==
    /\ [][Control => dirty']_vars
    /\ [][RenderGrid /\ ~panicked' =>
            /\ drawn'.row_count = row_count /\ drawn'.cell_size = cell_size
            /\ col_count' = calculate_col_count(cell_size, viewport)
            /\ total_cells' = row_count * col_count']_vars
    /\ [][~dirty' /\ ~panicked' /\ drawn'.passes > 0 =>
            /\ drawn'.row_count = row_count' /\ drawn'.cell_size = cell_size'
            /\ drawn'.viewport = viewport'
            /\ col_count' = calculate_col_count(cell_size', viewport')]_vars

\* the size- control was used after a pass, at the floor, so that the config
\* is as the pass read it, and a pass is requested
ClampedClickRequestsRender ==
    /\ drawn.passes > 0
    /\ clicks = drawn.clicks + 1
    /\ last_op = "size-"
    /\ cell_size = Fin(8)
    /\ drawn.cell_size = Fin(8)
    /\ drawn.viewport = viewport
    /\ dirty

\* a value that is no literal of the variable's type
NotUsize(e) == e.set /\ ~ParseUsize(e.val).ok
NotF32(e) == e.set /\ ~ParseF32(e.val).ok
NotBool(e) ==
    /\ e.set
    /\ e.val \notin {<<"1">>, <<"0">>}
    /\ LowerStr(e.val) \notin {<<"t", "r", "u", "e">>, <<"f", "a", "l", "s", "e">>}

\* C17: once main has run, every variable whose environment value is set but
\* is no value of the variable's type has its compiled default, and main has
\* not panicked.
UnparsableGivesDefault ==
    /\ ~panicked
    /\ launched =>
        /\ NotUsize(env.rows) => row_count = DEFAULT_ROWS
        /\ NotF32(env.cell) => cell_size = Fin(DEFAULT_CELL_SIZE)
        /\ NotUsize(env.step) => step_size = DEFAULT_STEP
        /\ NotF32(env.width) => window_width = Fin(DEFAULT_WIDTH)
        /\ NotF32(env.height) => window_height = Fin(DEFAULT_HEIGHT)
        /\ NotBool(env.hover) => enable_hover = TRUE
        /\ NotBool(env.click) => enable_click = TRUE

\* C18: add_row and remove_row leave cell_size, step_size, enable_hover and
\* enable_click as they were, increase_cell_size and decrease_cell_size leave
\* row_count, step_size, enable_hover and enable_click as they were, and no
\* control changes render_fps, frame_fps or the log.
ControlsTouchOneField ==
    /\ [][AddRow \/ RemoveRow =>
            UNCHANGED <<cell_size, step_size, enable_hover, enable_click>>]_vars
    /\ [][IncreaseCellSize \/ DecreaseCellSize =>
            UNCHANGED <<row_count, step_size, enable_hover, enable_click>>]_vars
    /\ [][Control =>
            UNCHANGED <<render_fps, frame_fps, render_samples, frame_samples, logVars>>]_vars

\* both rows and cell size were changed by the controls, the row- control
\* after the latest render pass, with samples in both estimators and rows in
\* the log
ControlsUsedWhileMeasuring ==
    /\ last_op = "row-"
    /\ raf /\ dirty
    /\ row_count = DEFAULT_ROWS - 1
    /\ cell_size = Fin(DEFAULT_CELL_SIZE + 4)
    /\ render_fps.times # <<>>
    /\ frame_fps.times # <<>>
    /\ appended # <<>>

\* C20: a render pass of FpsView records exactly one sample into render_fps
\* and none into frame_fps, and emits exactly one row of diagnostics in a
\* fiber build and none otherwise; an invocation of the frame callback with
\* its owner alive records exactly one sample into frame_fps and none into
\* render_fps.
EstimatorsIndependent ==
    /\ [][Draw =>
            /\ render_fps' = Record(render_fps, clock)
            /\ Len(render_samples') = Len(render_samples) + 1
            /\ UNCHANGED <<frame_fps, frame_samples>>
            /\ Len(emitted') = Len(emitted) + (IF build.fiber THEN 1 ELSE 0)]_vars
    /\ [][(NextFrame /\ owner_alive /\ pending > 0) =>
            /\ frame_fps' = Record(frame_fps, clock)
            /\ Len(frame_samples') = Len(frame_samples) + 1
            /\ UNCHANGED <<render_fps, render_samples, emitted>>]_vars
    /\ [](Len(render_samples) = frame_number)
    /\ [](Len(emitted) = IF build.fiber THEN frame_number ELSE 0)

\* two render passes and three frames: the two estimators hold different
\* numbers of samples, and each pass emitted its diagnostics
PassesAndFramesDiffer ==
    /\ build.fiber
    /\ Len(render_samples) = 2
    /\ Len(frame_samples) = 3
    /\ Len(render_fps.times) = 2
    /\ Len(frame_fps.times) = 3
    /\ Len(emitted) = 2

\* the initialisation ended without a header in the file
InitFailed == init_io \in {<<"open_failed">>, <<"write_failed">>}

HasHeader(f) == \E i \in 1..Len(f.data) : f.data[i] = Header

====
